---------------------------- MODULE Spec2Model ----------------------------
(***************************************************************************)
(* Model of doxygen_junit.py: main() reads a doxygen stderr file,          *)
(* parse_doxygen() groups the diagnostics by file name, and                *)
(* generate_test_suite() builds the JUnit tree that is then written.       *)
(*                                                                         *)
(* Text is a sequence of characters, "\n" being the line break.  A         *)
(* printable ASCII character is the one-character string, tab, line feed, *)
(* form feed and carriage return are "\t", "\n", "\f" and "\r", and every  *)
(* other character is the string "U+XXXX" of its code point.               *)
(***************************************************************************)
EXTENDS Naturals, Integers, Sequences, FiniteSets, Bags, TLC

VARIABLES pc,          \* position of main() / parse_doxygen() / generate_test_suite()
          error_text,  \* the text read from args.input
          lines,       \* error_text.split("\n"), the iterable of the for loop
          i,           \* number of lines the for loop has consumed
          match,       \* locals of the last loop iteration (pattern, filename, error)
          errors,      \* the defaultdict(set): key -> set of DoxygenError
          key_order,   \* insertion order of the keys of errors (dict order)
          tree,        \* the testsuite element built by generate_test_suite
          output,      \* contents of args.output: NoTree while not written, the
                       \* tree once written, Truncated(tree) after a failed write
          stderr,      \* what was printed to sys.stderr during main()
          result,      \* value main() returned, None while it has not returned
          uncaught     \* exception that left main(), NoException if none

vars == <<pc, error_text, lines, i, match, errors, key_order, tree, output,
          stderr, result, uncaught>>

None == "None"
NoTree == [tag |-> "None"]
NoException == [exception |-> "None"]
NoMatch == [matched |-> FALSE]

----------------------------------------------------------------------------
(* Bounds of the model. *)

MaxLines == 3

----------------------------------------------------------------------------
(* Characters and words. *)

NL == "\n"

(* The characters \d matches in a str pattern and int() converts: the      *)
(* decimal digits of every script (category Nd), which come in runs of ten *)
(* consecutive code points standing for 0 to 9.                            *)
DigitRuns ==
    { <<"0", "1", "2", "3", "4",
        "5", "6", "7", "8", "9">>,
      <<"U+0660", "U+0661", "U+0662", "U+0663", "U+0664",
        "U+0665", "U+0666", "U+0667", "U+0668", "U+0669">>,
      <<"U+06F0", "U+06F1", "U+06F2", "U+06F3", "U+06F4",
        "U+06F5", "U+06F6", "U+06F7", "U+06F8", "U+06F9">>,
      <<"U+07C0", "U+07C1", "U+07C2", "U+07C3", "U+07C4",
        "U+07C5", "U+07C6", "U+07C7", "U+07C8", "U+07C9">>,
      <<"U+0966", "U+0967", "U+0968", "U+0969", "U+096A",
        "U+096B", "U+096C", "U+096D", "U+096E", "U+096F">>,
      <<"U+09E6", "U+09E7", "U+09E8", "U+09E9", "U+09EA",
        "U+09EB", "U+09EC", "U+09ED", "U+09EE", "U+09EF">>,
      <<"U+0A66", "U+0A67", "U+0A68", "U+0A69", "U+0A6A",
        "U+0A6B", "U+0A6C", "U+0A6D", "U+0A6E", "U+0A6F">>,
      <<"U+0AE6", "U+0AE7", "U+0AE8", "U+0AE9", "U+0AEA",
        "U+0AEB", "U+0AEC", "U+0AED", "U+0AEE", "U+0AEF">>,
      <<"U+0B66", "U+0B67", "U+0B68", "U+0B69", "U+0B6A",
        "U+0B6B", "U+0B6C", "U+0B6D", "U+0B6E", "U+0B6F">>,
      <<"U+0BE6", "U+0BE7", "U+0BE8", "U+0BE9", "U+0BEA",
        "U+0BEB", "U+0BEC", "U+0BED", "U+0BEE", "U+0BEF">>,
      <<"U+0C66", "U+0C67", "U+0C68", "U+0C69", "U+0C6A",
        "U+0C6B", "U+0C6C", "U+0C6D", "U+0C6E", "U+0C6F">>,
      <<"U+0CE6", "U+0CE7", "U+0CE8", "U+0CE9", "U+0CEA",
        "U+0CEB", "U+0CEC", "U+0CED", "U+0CEE", "U+0CEF">>,
      <<"U+0D66", "U+0D67", "U+0D68", "U+0D69", "U+0D6A",
        "U+0D6B", "U+0D6C", "U+0D6D", "U+0D6E", "U+0D6F">>,
      <<"U+0DE6", "U+0DE7", "U+0DE8", "U+0DE9", "U+0DEA",
        "U+0DEB", "U+0DEC", "U+0DED", "U+0DEE", "U+0DEF">>,
      <<"U+0E50", "U+0E51", "U+0E52", "U+0E53", "U+0E54",
        "U+0E55", "U+0E56", "U+0E57", "U+0E58", "U+0E59">>,
      <<"U+0ED0", "U+0ED1", "U+0ED2", "U+0ED3", "U+0ED4",
        "U+0ED5", "U+0ED6", "U+0ED7", "U+0ED8", "U+0ED9">>,
      <<"U+0F20", "U+0F21", "U+0F22", "U+0F23", "U+0F24",
        "U+0F25", "U+0F26", "U+0F27", "U+0F28", "U+0F29">>,
      <<"U+1040", "U+1041", "U+1042", "U+1043", "U+1044",
        "U+1045", "U+1046", "U+1047", "U+1048", "U+1049">>,
      <<"U+1090", "U+1091", "U+1092", "U+1093", "U+1094",
        "U+1095", "U+1096", "U+1097", "U+1098", "U+1099">>,
      <<"U+17E0", "U+17E1", "U+17E2", "U+17E3", "U+17E4",
        "U+17E5", "U+17E6", "U+17E7", "U+17E8", "U+17E9">>,
      <<"U+1810", "U+1811", "U+1812", "U+1813", "U+1814",
        "U+1815", "U+1816", "U+1817", "U+1818", "U+1819">>,
      <<"U+1946", "U+1947", "U+1948", "U+1949", "U+194A",
        "U+194B", "U+194C", "U+194D", "U+194E", "U+194F">>,
      <<"U+19D0", "U+19D1", "U+19D2", "U+19D3", "U+19D4",
        "U+19D5", "U+19D6", "U+19D7", "U+19D8", "U+19D9">>,
      <<"U+1A80", "U+1A81", "U+1A82", "U+1A83", "U+1A84",
        "U+1A85", "U+1A86", "U+1A87", "U+1A88", "U+1A89">>,
      <<"U+1A90", "U+1A91", "U+1A92", "U+1A93", "U+1A94",
        "U+1A95", "U+1A96", "U+1A97", "U+1A98", "U+1A99">>,
      <<"U+1B50", "U+1B51", "U+1B52", "U+1B53", "U+1B54",
        "U+1B55", "U+1B56", "U+1B57", "U+1B58", "U+1B59">>,
      <<"U+1BB0", "U+1BB1", "U+1BB2", "U+1BB3", "U+1BB4",
        "U+1BB5", "U+1BB6", "U+1BB7", "U+1BB8", "U+1BB9">>,
      <<"U+1C40", "U+1C41", "U+1C42", "U+1C43", "U+1C44",
        "U+1C45", "U+1C46", "U+1C47", "U+1C48", "U+1C49">>,
      <<"U+1C50", "U+1C51", "U+1C52", "U+1C53", "U+1C54",
        "U+1C55", "U+1C56", "U+1C57", "U+1C58", "U+1C59">>,
      <<"U+A620", "U+A621", "U+A622", "U+A623", "U+A624",
        "U+A625", "U+A626", "U+A627", "U+A628", "U+A629">>,
      <<"U+A8D0", "U+A8D1", "U+A8D2", "U+A8D3", "U+A8D4",
        "U+A8D5", "U+A8D6", "U+A8D7", "U+A8D8", "U+A8D9">>,
      <<"U+A900", "U+A901", "U+A902", "U+A903", "U+A904",
        "U+A905", "U+A906", "U+A907", "U+A908", "U+A909">>,
      <<"U+A9D0", "U+A9D1", "U+A9D2", "U+A9D3", "U+A9D4",
        "U+A9D5", "U+A9D6", "U+A9D7", "U+A9D8", "U+A9D9">>,
      <<"U+A9F0", "U+A9F1", "U+A9F2", "U+A9F3", "U+A9F4",
        "U+A9F5", "U+A9F6", "U+A9F7", "U+A9F8", "U+A9F9">>,
      <<"U+AA50", "U+AA51", "U+AA52", "U+AA53", "U+AA54",
        "U+AA55", "U+AA56", "U+AA57", "U+AA58", "U+AA59">>,
      <<"U+ABF0", "U+ABF1", "U+ABF2", "U+ABF3", "U+ABF4",
        "U+ABF5", "U+ABF6", "U+ABF7", "U+ABF8", "U+ABF9">>,
      <<"U+FF10", "U+FF11", "U+FF12", "U+FF13", "U+FF14",
        "U+FF15", "U+FF16", "U+FF17", "U+FF18", "U+FF19">>,
      <<"U+104A0", "U+104A1", "U+104A2", "U+104A3", "U+104A4",
        "U+104A5", "U+104A6", "U+104A7", "U+104A8", "U+104A9">>,
      <<"U+10D30", "U+10D31", "U+10D32", "U+10D33", "U+10D34",
        "U+10D35", "U+10D36", "U+10D37", "U+10D38", "U+10D39">>,
      <<"U+11066", "U+11067", "U+11068", "U+11069", "U+1106A",
        "U+1106B", "U+1106C", "U+1106D", "U+1106E", "U+1106F">>,
      <<"U+110F0", "U+110F1", "U+110F2", "U+110F3", "U+110F4",
        "U+110F5", "U+110F6", "U+110F7", "U+110F8", "U+110F9">>,
      <<"U+11136", "U+11137", "U+11138", "U+11139", "U+1113A",
        "U+1113B", "U+1113C", "U+1113D", "U+1113E", "U+1113F">>,
      <<"U+111D0", "U+111D1", "U+111D2", "U+111D3", "U+111D4",
        "U+111D5", "U+111D6", "U+111D7", "U+111D8", "U+111D9">>,
      <<"U+112F0", "U+112F1", "U+112F2", "U+112F3", "U+112F4",
        "U+112F5", "U+112F6", "U+112F7", "U+112F8", "U+112F9">>,
      <<"U+11450", "U+11451", "U+11452", "U+11453", "U+11454",
        "U+11455", "U+11456", "U+11457", "U+11458", "U+11459">>,
      <<"U+114D0", "U+114D1", "U+114D2", "U+114D3", "U+114D4",
        "U+114D5", "U+114D6", "U+114D7", "U+114D8", "U+114D9">>,
      <<"U+11650", "U+11651", "U+11652", "U+11653", "U+11654",
        "U+11655", "U+11656", "U+11657", "U+11658", "U+11659">>,
      <<"U+116C0", "U+116C1", "U+116C2", "U+116C3", "U+116C4",
        "U+116C5", "U+116C6", "U+116C7", "U+116C8", "U+116C9">>,
      <<"U+11730", "U+11731", "U+11732", "U+11733", "U+11734",
        "U+11735", "U+11736", "U+11737", "U+11738", "U+11739">>,
      <<"U+118E0", "U+118E1", "U+118E2", "U+118E3", "U+118E4",
        "U+118E5", "U+118E6", "U+118E7", "U+118E8", "U+118E9">>,
      <<"U+11950", "U+11951", "U+11952", "U+11953", "U+11954",
        "U+11955", "U+11956", "U+11957", "U+11958", "U+11959">>,
      <<"U+11C50", "U+11C51", "U+11C52", "U+11C53", "U+11C54",
        "U+11C55", "U+11C56", "U+11C57", "U+11C58", "U+11C59">>,
      <<"U+11D50", "U+11D51", "U+11D52", "U+11D53", "U+11D54",
        "U+11D55", "U+11D56", "U+11D57", "U+11D58", "U+11D59">>,
      <<"U+11DA0", "U+11DA1", "U+11DA2", "U+11DA3", "U+11DA4",
        "U+11DA5", "U+11DA6", "U+11DA7", "U+11DA8", "U+11DA9">>,
      <<"U+16A60", "U+16A61", "U+16A62", "U+16A63", "U+16A64",
        "U+16A65", "U+16A66", "U+16A67", "U+16A68", "U+16A69">>,
      <<"U+16AC0", "U+16AC1", "U+16AC2", "U+16AC3", "U+16AC4",
        "U+16AC5", "U+16AC6", "U+16AC7", "U+16AC8", "U+16AC9">>,
      <<"U+16B50", "U+16B51", "U+16B52", "U+16B53", "U+16B54",
        "U+16B55", "U+16B56", "U+16B57", "U+16B58", "U+16B59">>,
      <<"U+1D7CE", "U+1D7CF", "U+1D7D0", "U+1D7D1", "U+1D7D2",
        "U+1D7D3", "U+1D7D4", "U+1D7D5", "U+1D7D6", "U+1D7D7">>,
      <<"U+1D7D8", "U+1D7D9", "U+1D7DA", "U+1D7DB", "U+1D7DC",
        "U+1D7DD", "U+1D7DE", "U+1D7DF", "U+1D7E0", "U+1D7E1">>,
      <<"U+1D7E2", "U+1D7E3", "U+1D7E4", "U+1D7E5", "U+1D7E6",
        "U+1D7E7", "U+1D7E8", "U+1D7E9", "U+1D7EA", "U+1D7EB">>,
      <<"U+1D7EC", "U+1D7ED", "U+1D7EE", "U+1D7EF", "U+1D7F0",
        "U+1D7F1", "U+1D7F2", "U+1D7F3", "U+1D7F4", "U+1D7F5">>,
      <<"U+1D7F6", "U+1D7F7", "U+1D7F8", "U+1D7F9", "U+1D7FA",
        "U+1D7FB", "U+1D7FC", "U+1D7FD", "U+1D7FE", "U+1D7FF">>,
      <<"U+1E140", "U+1E141", "U+1E142", "U+1E143", "U+1E144",
        "U+1E145", "U+1E146", "U+1E147", "U+1E148", "U+1E149">>,
      <<"U+1E2F0", "U+1E2F1", "U+1E2F2", "U+1E2F3", "U+1E2F4",
        "U+1E2F5", "U+1E2F6", "U+1E2F7", "U+1E2F8", "U+1E2F9">>,
      <<"U+1E950", "U+1E951", "U+1E952", "U+1E953", "U+1E954",
        "U+1E955", "U+1E956", "U+1E957", "U+1E958", "U+1E959">>,
      <<"U+1FBF0", "U+1FBF1", "U+1FBF2", "U+1FBF3", "U+1FBF4",
        "U+1FBF5", "U+1FBF6", "U+1FBF7", "U+1FBF8", "U+1FBF9">> }

Digits == UNION {{r[k] : k \in 1..10} : r \in DigitRuns}

(* The characters \s matches in a str pattern and str.rstrip() removes:    *)
(* those for which str.isspace() holds.                                    *)
Whitespace ==
    { "\t", NL, "U+000B", "\f", "\r", "U+001C", "U+001D", "U+001E", "U+001F",
      " ", "U+0085", "U+00A0", "U+1680", "U+2000", "U+2001", "U+2002",
      "U+2003", "U+2004", "U+2005", "U+2006", "U+2007", "U+2008", "U+2009",
      "U+200A", "U+2028", "U+2029", "U+202F", "U+205F", "U+3000" }

(* sys.int_max_str_digits: int() raises ValueError on a longer digit run. *)
int_max_str_digits == 4300

kw_error == <<"e", "r", "r", "o", "r">>
kw_warning == <<"w", "a", "r", "n", "i", "n", "g">>
kw_Error == <<"E", "r", "r", "o", "r">>
kw_note == <<"n", "o", "t", "e">>
name_doxygen == <<"d", "o", "x", "y", "g", "e", "n">>
name_no_errors == <<"n", "o", " ", "e", "r", "r", "o", "r", "s">>

Max(S) == CHOOSE x \in S : \A y \in S : y <= x
Min(S) == CHOOSE x \in S : \A y \in S : x <= y

(* s[p..] starts with the word w. *)
HasPrefixAt(s, p, w) ==
    /\ p >= 1
    /\ p + Len(w) - 1 <= Len(s)
    /\ SubSeq(s, p, p + Len(w) - 1) = w

(* int(): value of a non-empty string of decimal digits of at most        *)
(* int_max_str_digits characters; a digit counts as its place in its run.  *)
DigitValues ==
    [c \in Digits |-> CHOOSE v \in 0..9 : \E r \in DigitRuns : r[v + 1] = c]

DigitValue(c) == DigitValues[c]

RECURSIVE int(_)
int(ds) ==
    IF Len(ds) = 0 THEN 0
    ELSE 10 * int(SubSeq(ds, 1, Len(ds) - 1)) + DigitValue(ds[Len(ds)])

(* str(): decimal text of a natural number, no leading zeros. *)
DigitChar(d) ==
    CASE d = 0 -> "0" [] d = 1 -> "1" [] d = 2 -> "2" [] d = 3 -> "3"
      [] d = 4 -> "4" [] d = 5 -> "5" [] d = 6 -> "6" [] d = 7 -> "7"
      [] d = 8 -> "8" [] d = 9 -> "9"

RECURSIVE str(_)
str(n) ==
    IF n < 10 THEN <<DigitChar(n)>>
    ELSE Append(str(n \div 10), DigitChar(n % 10))

(* str.split("\n"): the pieces between line breaks; never an empty list. *)
RECURSIVE split(_)
split(s) ==
    IF \E k \in 1..Len(s) : s[k] = NL
    THEN LET k == Min({j \in 1..Len(s) : s[j] = NL})
         IN  <<SubSeq(s, 1, k - 1)>> \o split(SubSeq(s, k + 1, Len(s)))
    ELSE <<s>>

(* str.rstrip(): drop the trailing whitespace. *)
RECURSIVE rstrip(_)
rstrip(s) ==
    IF Len(s) > 0 /\ s[Len(s)] \in Whitespace
    THEN rstrip(SubSeq(s, 1, Len(s) - 1))
    ELSE s

----------------------------------------------------------------------------
(* The regular expressions of parse_doxygen, matched as the backtracking   *)
(* engine matches them: the leftmost start, every greedy quantifier takes  *)
(* the longest run for which the rest of the pattern still matches.        *)

(* A candidate end of a greedy run with what the rest of the pattern       *)
(* finds after it, and the longest candidate whose rest matches.           *)
Candidate(e, r) == [matched |-> r.matched, end |-> e, rest |-> r]

LongestOf(M) ==
    IF M = {} THEN NoMatch ELSE CHOOSE c \in M : \A q \in M : q.end <= c.end

Longest(C) == LongestOf({c \in C : c.matched})

(* \s+<rest> at p: greedy \s+, then <rest> takes the rest of the line      *)
(* ("." matches everything but a line break).                              *)
MessageFrom(s, ends) ==
    IF ends = {} THEN NoMatch
    ELSE [matched |-> TRUE, message |-> SubSeq(s, Max(ends), Len(s))]

MatchMessage(s, p) ==
    MessageFrom(s, {m \in (p + 1)..(Len(s) + 1) :
                       /\ \A j \in p..(m - 1) : s[j] \in Whitespace
                       /\ \A j \in m..Len(s) : s[j] # NL})

(* Faulty variant: the keyword is matched without regard to case. *)
SeverityAt_ignorecase(s, p) ==
    IF HasPrefixAt(s, p, kw_error) \/ HasPrefixAt(s, p, kw_Error) THEN kw_error
    ELSE IF HasPrefixAt(s, p, kw_warning) THEN kw_warning
    ELSE <<>>

(* (error|warning) at p: the alternative that matches, <<>> if none does. *)
SeverityAt(s, p) ==
    IF HasPrefixAt(s, p, kw_error) THEN kw_error
    ELSE IF HasPrefixAt(s, p, kw_warning) THEN kw_warning
    ELSE <<>>

WithSeverity(kw, m) ==
    IF m.matched
    THEN [matched |-> TRUE, severity |-> kw, message |-> m.message]
    ELSE NoMatch

MatchSeverityWord(s, p, kw) ==
    IF kw # <<>> /\ p + Len(kw) <= Len(s) /\ s[p + Len(kw)] = ":"
    THEN WithSeverity(kw, MatchMessage(s, p + Len(kw) + 1))
    ELSE NoMatch

(* (error|warning):\s+<rest> at p. *)
MatchSeverity(s, p) == MatchSeverityWord(s, p, SeverityAt(s, p))

(* \s*(error|warning):\s+<rest> at p: greedy \s*. *)
SpaceSeverityResult(c) == IF c.matched THEN c.rest ELSE NoMatch

MatchSpaceSeverity(s, p) ==
    SpaceSeverityResult(
        Longest({Candidate(w, MatchSeverity(s, w)) :
                    w \in {x \in p..(Len(s) + 1) :
                              \A j \in p..(x - 1) : s[j] \in Whitespace}}))

(* (\d+):\s*(error|warning):\s+<rest> at p: greedy \d+. *)
LineNumberResult(s, p, c) ==
    IF c.matched
    THEN [matched |-> TRUE, digits |-> SubSeq(s, p, c.end - 1),
          severity |-> c.rest.severity, message |-> c.rest.message]
    ELSE NoMatch

MatchLineNumber(s, p) ==
    LineNumberResult(s, p,
        Longest({Candidate(d, MatchSpaceSeverity(s, d + 1)) :
                    d \in {x \in (p + 1)..Len(s) :
                              /\ s[x] = ":"
                              /\ \A j \in p..(x - 1) : s[j] \in Digits}}))

(* (.+):(\d+):\s*(error|warning):\s+<rest> with group 1 starting at st:    *)
(* greedy .+, so the last position where the rest matches.                 *)
PrimaryResult(s, st, c) ==
    IF c.matched
    THEN [matched |-> TRUE, group1 |-> SubSeq(s, st, c.end),
          group2 |-> c.rest.digits, group3 |-> c.rest.severity,
          group4 |-> c.rest.message]
    ELSE NoMatch

MatchPrimaryAt(s, st) ==
    PrimaryResult(s, st,
        Longest({Candidate(e, MatchLineNumber(s, e + 2)) :
                    e \in {x \in st..(Len(s) - 1) :
                              /\ s[x + 1] = ":"
                              /\ \A j \in st..x : s[j] # NL}}))

(* re.search(r"(.+):(\d+):\s*(error|warning):\s+<rest>", line): the start  *)
(* positions are tried from the left, the first that matches wins.         *)
RECURSIVE SearchPrimaryFrom(_, _)
FirstMatch(m, s, st) == IF m.matched THEN m ELSE SearchPrimaryFrom(s, st + 1)

SearchPrimaryFrom(s, st) ==
    IF st > Len(s) THEN NoMatch ELSE FirstMatch(MatchPrimaryAt(s, st), s, st)

SearchPrimary(s) == SearchPrimaryFrom(s, 1)

(* re.search(r"^(error|warning):\s+<rest>$", line): "^" holds only at the  *)
(* start of the line, "$" is reached because <rest> runs to the end.       *)
FallbackResult(r) ==
    IF r.matched
    THEN [matched |-> TRUE, group1 |-> r.severity, group2 |-> r.message]
    ELSE NoMatch

SearchFallback(s) == FallbackResult(MatchSeverity(s, 1))

----------------------------------------------------------------------------
(* DoxygenError and the collection. *)

DoxygenError(line, message) == [line |-> line, message |-> message]

(* Faulty variant: the default object equality, by identity, under which  *)
(* a newly built DoxygenError equals no stored one.                        *)
DoxygenErrorEq_identity(a, b) == FALSE

(* DoxygenError.__eq__: same class and same __dict__. *)
DoxygenErrorEq(a, b) == a.line = b.line /\ a.message = b.message

(* set.add: the element is stored unless an equal one is already there.    *)
(* The set is kept as a bag so that a stored duplicate would be visible.   *)
SetAdd(set, x) ==
    IF \E y \in BagToSet(set) : DoxygenErrorEq(y, x)
    THEN set
    ELSE set (+) SetToBag({x})

(* errors[filename] on the defaultdict(set): a missing key is inserted     *)
(* with an empty set.                                                      *)
DefaultGet(d, filename) ==
    IF filename \in DOMAIN d
    THEN d
    ELSE [k \in DOMAIN d \cup {filename} |->
             IF k = filename THEN EmptyBag ELSE d[k]]

(* errors[filename].add(error): the lookup, then the add. *)
DictAdd(d, filename, error) ==
    [DefaultGet(d, filename) EXCEPT ![filename] = SetAdd(@, error)]

EmptyDict == [k \in {} |-> EmptyBag]

(* Faulty variant: the line is matched as it is, without rstrip. *)
StripLine_none(raw) == raw

(* line = line.rstrip() *)
StripLine(raw) == rstrip(raw)

(* The records the two branches of the loop body build from a match; the  *)
(* int() of line 91 raises ValueError on a digit run that is too long,     *)
(* after filename is set and errors[filename] is looked up.                *)
PrimaryRecord(p) ==
    IF Len(p.group2) > int_max_str_digits
    THEN [pattern |-> "raised", filename |-> p.group1, exception |-> "ValueError"]
    ELSE [pattern |-> "primary", filename |-> p.group1,
          error |-> DoxygenError(int(p.group2), p.group4)]

FallbackRecord(f, n) ==
    IF f.matched
    THEN [pattern |-> "fallback", filename |-> name_doxygen,
          error |-> DoxygenError(n, f.group2)]
    ELSE [pattern |-> "none"]

(* Faulty variant: the fallback pattern is tried before the primary one. *)
Classify_first(f, line) ==
    IF f.matched THEN FallbackRecord(f, 0)
    ELSE IF SearchPrimary(line).matched THEN PrimaryRecord(SearchPrimary(line))
    ELSE [pattern |-> "none"]

(* Faulty variant: a tool-level message gets line 1 instead of 0. *)
Classify_fallback_line1(p, line) ==
    IF p.matched THEN PrimaryRecord(p) ELSE FallbackRecord(SearchFallback(line), 1)

(* The if / else of lines 89-95 on the stripped line and its primary match. *)
Classify(p, line) ==
    IF p.matched THEN PrimaryRecord(p) ELSE FallbackRecord(SearchFallback(line), 0)

(* Faulty variant: the fallback search runs first. *)
ClassifyStripped_first(line) == Classify_first(SearchFallback(line), line)

(* One iteration of the for loop of parse_doxygen on one line: what is    *)
(* matched and which (filename, error) is added.                           *)
ClassifyStripped(line) == Classify(SearchPrimary(line), line)

ClassifyLine(raw) == ClassifyStripped(StripLine(raw))

(* The body of the for loop of parse_doxygen applied to the collection. *)
AddMatch(d, m) ==
    IF m.pattern = "none" THEN d ELSE DictAdd(d, m.filename, m.error)

(* The for loop over the lines ls: it ends with the collection, or with   *)
(* the exception of the first line that raises.                            *)
RECURSIVE ParseLines(_, _)
ParseRest(m, d, rest) ==
    IF m.pattern = "raised"
    THEN [raised |-> TRUE, exception |-> m.exception]
    ELSE ParseLines(AddMatch(d, m), rest)

ParseLines(d, ls) ==
    IF Len(ls) = 0 THEN [raised |-> FALSE, errors |-> d]
    ELSE ParseRest(ClassifyLine(Head(ls)), d, Tail(ls))

(* parse_doxygen(error_text) as a function of the text. *)
parse_doxygen(text) == ParseLines(EmptyDict, split(text))

----------------------------------------------------------------------------
(* The inputs: texts of at most MaxLines lines drawn from LinePool.        *)

sp == <<" ">>
colon == <<":">>
loc_42 == <<":", "4", "2", ":">>
loc_042 == <<":", "U+0660", "U+0664", "U+0662", ":">>
loc_7 == <<":", "7", ":">>
loc_0 == <<":", "0", ":">>
a_42_error == <<"a">> \o loc_42 \o sp \o kw_error \o colon
b_7_warning_y == <<"b">> \o loc_7 \o sp \o kw_warning \o colon \o sp \o <<"y">>

LinePool ==
    { <<>>,
      a_42_error \o sp \o <<"x">>,
      <<"a">> \o loc_42 \o sp \o kw_warning \o colon \o sp \o <<"x">>,
      a_42_error \o sp \o <<"y">>,
      b_7_warning_y,
      <<"a">> \o loc_0 \o sp \o kw_error \o colon \o sp \o <<"x">>,
      <<"a">> \o loc_042 \o kw_error \o colon \o <<"U+3000", "x", " ", "U+0085">>,
      <<"a">> \o loc_42 \o sp \o kw_Error \o colon \o sp \o <<"x">>,
      kw_note \o colon \o sp \o kw_warning \o colon \o sp \o <<"x">>,
      kw_warning \o colon \o <<"U+00A0", "\t", "x", "\f">>,
      a_42_error \o sp \o b_7_warning_y,
      kw_error \o colon \o sp \o a_42_error \o sp \o <<"x">>,
      a_42_error \o sp }

(* A diagnostic whose line number has one digit more than int() accepts. *)
LongNumberLine ==
    <<"a", ":">> \o [j \in 1..(int_max_str_digits + 1) |-> "1"] \o <<":">>
        \o sp \o kw_error \o colon \o sp \o <<"x">>

(* "\n".join(ls) *)
RECURSIVE join(_)
join(ls) ==
    IF Len(ls) = 0 THEN <<>>
    ELSE IF Len(ls) = 1 THEN ls[1]
    ELSE ls[1] \o <<NL>> \o join(Tail(ls))

Texts ==
    {join(ls) : ls \in UNION {[1..n -> LinePool] : n \in 1..MaxLines}}
        \cup {LongNumberLine, join(<<b_7_warning_y, LongNumberLine>>)}

----------------------------------------------------------------------------
(* generate_test_suite *)

(* The orders in which iterating a set may yield its elements. *)
Enumerations(set) ==
    {q \in [1..BagCardinality(set) -> BagToSet(set)] :
        \A x \in BagToSet(set) :
            Cardinality({k \in DOMAIN q : q[k] = x}) = CopiesIn(x, set)}

(* Faulty variant: the message attribute lacks the "<line>: " prefix. *)
TestCase_bare_message(filename, error) ==
    [tag |-> "testcase",
     attrib |-> [name |-> filename, file |-> filename, line |-> str(error.line)],
     children |-> <<[tag |-> "error", attrib |-> [message |-> error.message]]>>]

(* The testcase element of one error, with its nested error element. *)
TestCase(filename, error) ==
    [tag |-> "testcase",
     attrib |-> [name |-> filename, file |-> filename, line |-> str(error.line)],
     children |-> <<[tag |-> "error",
                     attrib |-> [message |-> str(error.line) \o <<":", " ">>
                                             \o error.message]]>>]

BlankTestCase ==
    [tag |-> "testcase", attrib |-> [name |-> name_no_errors], children |-> <<>>]

(* The testcase elements in the order the nested for loops create them:    *)
(* keys in dict order, the errors of a key in the order iter[key].         *)
RECURSIVE TestCases(_, _)
TestCases(keys, iter) ==
    IF Len(keys) = 0 THEN <<>>
    ELSE [k \in 1..Len(iter[Head(keys)]) |-> TestCase(Head(keys), iter[Head(keys)][k])]
         \o TestCases(Tail(keys), iter)

(* Number of records of the collection, summed over the keys. *)
RECURSIVE SumRecords(_, _)
SumRecords(d, K) ==
    IF K = {} THEN 0
    ELSE LET k == CHOOSE x \in K : TRUE
         IN  BagCardinality(d[k]) + SumRecords(d, K \ {k})

TotalRecords(d) == SumRecords(d, DOMAIN d)

(* Faulty variant: the suite counts the records instead of the keys. *)
CountKeys_records(d) == TotalRecords(d)

(* len(errors_by_filename) *)
CountKeys(d) == Cardinality(DOMAIN d)

(* Faulty variant: no blank test case for an empty collection. *)
TestSuite_no_blank(d, keys, iter) ==
    [tag |-> "testsuite",
     attrib |-> [failures |-> str(0), name |-> name_doxygen, time |-> str(0),
                 errors |-> str(CountKeys(d)), tests |-> str(CountKeys(d))],
     children |-> TestCases(keys, iter)]

(* The testsuite element of lines 110-130. *)
TestSuite(d, keys, iter) ==
    IF CountKeys(d) = 0
    THEN [tag |-> "testsuite",
          attrib |-> [failures |-> str(0), name |-> name_doxygen, time |-> str(0),
                      tests |-> str(1), errors |-> str(0)],
          children |-> <<BlankTestCase>>]
    ELSE [tag |-> "testsuite",
          attrib |-> [failures |-> str(0), name |-> name_doxygen, time |-> str(0),
                      errors |-> str(CountKeys(d)), tests |-> str(CountKeys(d))],
          children |-> TestCases(keys, iter)]

----------------------------------------------------------------------------
(* The program. *)

Init ==
    /\ pc = "parse_arguments"
    /\ error_text = <<>>
    /\ lines = <<>>
    /\ i = 0
    /\ match = [pattern |-> "none"]
    /\ errors = EmptyDict
    /\ key_order = <<>>
    /\ tree = NoTree
    /\ output = NoTree
    /\ stderr = None
    /\ result = None
    /\ uncaught = NoException

(* main, line 62: argparse returns the namespace, or leaves through        *)
(* SystemExit, which is outside the try: after printing to stdout          *)
(* (--version, -h), or after printing the usage and the error to stderr    *)
(* (missing --input, unknown argument).                                    *)
ParseArguments ==
    /\ pc = "parse_arguments"
    /\ \/ /\ pc' = "read"
          /\ UNCHANGED <<uncaught, stderr>>
       \/ /\ pc' = "exited"
          /\ uncaught' = [exception |-> "SystemExit", during |-> "parse_arguments"]
          /\ stderr' \in {stderr, "usage"}
    /\ UNCHANGED <<error_text, lines, i, match, errors, key_order, tree,
                   output, result>>

(* main, line 65: open(args.input).read(), then the call of parse_doxygen  *)
(* with errors = defaultdict(set) and the split of the text.               *)
ReadInput ==
    /\ pc = "read"
    /\ \E text \in Texts :
          /\ error_text' = text
          /\ lines' = split(text)
    /\ pc' = "parse_doxygen"
    /\ i' = 0
    /\ errors' = EmptyDict
    /\ key_order' = <<>>
    /\ UNCHANGED <<match, tree, output, stderr, result, uncaught>>

(* main, lines 65-69: open() or read() raises IOError, which is caught.    *)
ReadIOError ==
    /\ pc = "read"
    /\ pc' = "returned"
    /\ stderr' = "IOError"
    /\ result' = "failure"
    /\ UNCHANGED <<error_text, lines, i, match, errors, key_order, tree,
                   output, uncaught>>

(* main, line 65: read() raises UnicodeDecodeError on bytes that are not   *)
(* valid in the locale's encoding; it is a ValueError, not an IOError, so  *)
(* the except clause of line 67 does not catch it.                         *)
ReadDecodeError ==
    /\ pc = "read"
    /\ pc' = "exited"
    /\ uncaught' = [exception |-> "UnicodeDecodeError", during |-> "read"]
    /\ UNCHANGED <<error_text, lines, i, match, errors, key_order, tree,
                   output, stderr, result>>

(* parse_doxygen, lines 86-95: one iteration of the for loop; a ValueError *)
(* of int() is not an IOError, so it leaves main through line 65, with the *)
(* key of errors[filename] already inserted.                               *)
ParseLine ==
    /\ pc = "parse_doxygen"
    /\ i < Len(lines)
    /\ match' = ClassifyLine(lines[i + 1])
    /\ errors' = IF match'.pattern = "raised"
                 THEN DefaultGet(errors, match'.filename)
                 ELSE AddMatch(errors, match')
    /\ key_order' = IF DOMAIN errors' = DOMAIN errors
                    THEN key_order
                    ELSE Append(key_order, match'.filename)
    /\ IF match'.pattern = "raised"
       THEN /\ pc' = "exited"
            /\ uncaught' = [exception |-> match'.exception, during |-> "parse"]
            /\ UNCHANGED i
       ELSE /\ i' = i + 1
            /\ UNCHANGED <<pc, uncaught>>
    /\ UNCHANGED <<error_text, lines, tree, output, stderr, result>>

(* parse_doxygen returns (line 96) and generate_test_suite runs            *)
(* (lines 110-132); the sets are iterated in an arbitrary order.           *)
GenerateTestSuite ==
    /\ pc = "parse_doxygen"
    /\ i = Len(lines)
    /\ \E iter \in [DOMAIN errors -> UNION {Enumerations(errors[k]) : k \in DOMAIN errors}] :
          /\ \A k \in DOMAIN errors : iter[k] \in Enumerations(errors[k])
          /\ tree' = TestSuite(errors, key_order, iter)
    /\ pc' = "write"
    /\ UNCHANGED <<error_text, lines, i, match, errors, key_order, output,
                   stderr, result, uncaught>>

(* What args.output holds when the write of the document t stops early:   *)
(* a proper prefix of the serialised document, possibly nothing.           *)
Truncated(t) == [tag |-> "truncated", document |-> t]

(* main, lines 66 and 71: tree.write succeeds and main returns success. *)
WriteOutput ==
    /\ pc = "write"
    /\ output' = tree
    /\ result' = "success"
    /\ pc' = "returned"
    /\ UNCHANGED <<error_text, lines, i, match, errors, key_order, tree,
                   stderr, uncaught>>

(* main, lines 66-69: tree.write raises IOError, which is caught.  The     *)
(* write fails in opening args.output, which leaves the file as it was, or *)
(* after the open has created or emptied it, which leaves the part of the  *)
(* document written so far.                                                *)
WriteIOError ==
    /\ pc = "write"
    /\ output' \in {output, Truncated(tree)}
    /\ stderr' = "IOError"
    /\ result' = "failure"
    /\ pc' = "returned"
    /\ UNCHANGED <<error_text, lines, i, match, errors, key_order, tree,
                   uncaught>>

Next ==
    \/ ParseArguments
    \/ ReadInput
    \/ ReadIOError
    \/ ReadDecodeError
    \/ ParseLine
    \/ GenerateTestSuite
    \/ WriteOutput
    \/ WriteIOError

Spec == Init /\ [][Next]_vars

TypeOK ==
    /\ pc \in {"parse_arguments", "read", "parse_doxygen", "write", "returned", "exited"}
    /\ i \in 0..Len(lines)
    /\ result \in {None, "success", "failure"}
    /\ stderr \in {None, "IOError", "usage"}
    /\ uncaught \in {NoException,
                     [exception |-> "SystemExit", during |-> "parse_arguments"],
                     [exception |-> "UnicodeDecodeError", during |-> "read"],
                     [exception |-> "ValueError", during |-> "parse"]}
    /\ output \in {NoTree, tree, Truncated(tree)}

----------------------------------------------------------------------------
(* Vocabulary of the properties. *)

(* The for loop of parse_doxygen is over, the collection is about to be returned. *)
Parsed == pc = "parse_doxygen" /\ i = Len(lines)
(* generate_test_suite has returned the tree, which is about to be written. *)
Generated == pc = "write"
(* parse_doxygen is running and has consumed at least one line. *)
InLoop == pc = "parse_doxygen" /\ i >= 1

(* The p-th line as the patterns see it, and what they find in it. *)
Stripped(p) == rstrip(lines[p])
PrimaryOf(p) == SearchPrimary(Stripped(p))
FallbackOf(p) == SearchFallback(Stripped(p))
LineMatches(p) == PrimaryOf(p).matched \/ FallbackOf(p).matched

(* Attributes of a testcase element and of its nested error element. *)
ChildKey(c) == c.attrib.name
ChildLine(c) == c.attrib.line
ChildMessage(c) == c.children[1].attrib.message

(* The testcase elements that report the triple (k, n, m). *)
ChildrenOf(k, n, m) ==
    {j \in DOMAIN tree.children :
        /\ ChildKey(tree.children[j]) = k
        /\ int(ChildLine(tree.children[j])) = n
        /\ ChildMessage(tree.children[j]) = ChildLine(tree.children[j]) \o <<":", " ">> \o m}

AsSets(d) == [k \in DOMAIN d |-> BagToSet(d[k])]

BlankSuite ==
    [tag |-> "testsuite",
     attrib |-> [failures |-> <<"0">>, name |-> name_doxygen, time |-> <<"0">>,
                 tests |-> <<"1">>, errors |-> <<"0">>],
     children |-> <<[tag |-> "testcase", attrib |-> [name |-> name_no_errors],
                     children |-> <<>>]>>]

----------------------------------------------------------------------------
(* C1: for a non-empty collection the suite attributes errors and tests    *)
(* both are the number of distinct keys, while the number of testcase      *)
(* children is the number of records summed over the keys: two files with  *)
(* one record each give "2", "2" and two children, one file with three     *)
(* records gives "1", "1" and three children.                              *)
C1_CountsKeysNotRecords ==
    (Generated /\ DOMAIN errors # {}) =>
        /\ int(tree.attrib.errors) = Cardinality(DOMAIN errors)
        /\ int(tree.attrib.tests) = Cardinality(DOMAIN errors)
        /\ tree.attrib.errors = tree.attrib.tests
        /\ Len(tree.children) = TotalRecords(errors)
        /\ (Cardinality(DOMAIN errors) = 2 /\ TotalRecords(errors) = 2) =>
               (tree.attrib.errors = <<"2">> /\ Len(tree.children) = 2)
        /\ (Cardinality(DOMAIN errors) = 1 /\ TotalRecords(errors) = 3) =>
               (tree.attrib.errors = <<"1">> /\ Len(tree.children) = 3)

C1_Witness ==
    /\ Generated
    /\ Cardinality(DOMAIN errors) = 1
    /\ Len(tree.children) = 3

(* C2: when no line of the text matches the primary or the fallback        *)
(* pattern the collection stays without keys at every point of the loop,   *)
(* and the suite is the blank one: tests 1, errors 0, failures 0, time 0   *)
(* and a single testcase "no errors" without other attributes or children. *)
C2_NoMatchGivesBlankSuite ==
    /\ (pc = "parse_doxygen" /\ \A p \in 1..i : ~LineMatches(p)) =>
           (errors = EmptyDict /\ key_order = <<>> /\ match.pattern = "none")
    /\ (Generated /\ \A p \in 1..Len(lines) : ~LineMatches(p)) =>
           tree = BlankSuite

C2_Witness ==
    /\ Generated
    /\ Len(lines) = 3
    /\ lines[1] # <<>>
    /\ lines[3] # <<>>
    /\ \A p \in 1..Len(lines) : ~LineMatches(p)

(* C3: the collection never holds more than one record for a (file name,   *)
(* line number, message) triple, however often lines producing it occur,   *)
(* and the suite has at most one testcase element for a triple.            *)
C3_OneRecordPerTriple ==
    /\ \A k \in DOMAIN errors : \A e \in BagToSet(errors[k]) :
           CopiesIn(e, errors[k]) = 1
    /\ (Generated /\ DOMAIN errors # {}) =>
           \A a, b \in DOMAIN tree.children :
               (/\ ChildKey(tree.children[a]) = ChildKey(tree.children[b])
                /\ ChildLine(tree.children[a]) = ChildLine(tree.children[b])
                /\ ChildMessage(tree.children[a]) = ChildMessage(tree.children[b]))
               => a = b

C3_Witness ==
    /\ Generated
    /\ \E a, b \in 1..Len(lines) :
          /\ a < b
          /\ lines[a] # lines[b]
          /\ PrimaryOf(a).matched
          /\ ClassifyLine(lines[a]) = ClassifyLine(lines[b])

(* C4: for a line the primary pattern matches, the key is the text up to   *)
(* the first ":<digits>:" boundary that is followed by the severity        *)
(* keyword and a message, the line number is the digits at that boundary   *)
(* and the message is everything after the keyword, also when the message  *)
(* holds a further ":<digits>: error:" sequence.                           *)
FirstBoundary(s) ==
    Min({e \in 1..(Len(s) - 1) : s[e + 1] = ":" /\ MatchLineNumber(s, e + 2).matched})

C4_KeyEndsAtFirstBoundary ==
    (InLoop /\ PrimaryOf(i).matched) =>
        LET s == Stripped(i)
            e == FirstBoundary(s)
            r == MatchLineNumber(s, e + 2)
        IN  match = [pattern |-> "primary", filename |-> SubSeq(s, 1, e),
                     error |-> [line |-> int(r.digits), message |-> r.message]]

(* C5: a line starting with "error:" or "warning:", whitespace and a       *)
(* message gives the record (line 0, that message) under "doxygen" exactly *)
(* when the primary pattern does not match it; the fallback is not used on *)
(* a line the primary pattern matches; a line without the keyword at its   *)
(* very start that the primary pattern does not match gives no record.     *)
SeverityPrefix(s) ==
    IF HasPrefixAt(s, 1, kw_error \o <<":">>) THEN Len(kw_error) + 1
    ELSE IF HasPrefixAt(s, 1, kw_warning \o <<":">>) THEN Len(kw_warning) + 1
    ELSE 0

StartsWithSeverity(s) ==
    /\ SeverityPrefix(s) > 0
    /\ Len(s) > SeverityPrefix(s)
    /\ s[SeverityPrefix(s) + 1] \in Whitespace

(* The text after the keyword, its colon and the whitespace that follows. *)
MessageAfterSeverity(s) ==
    LET first == Min({j \in (SeverityPrefix(s) + 1)..Len(s) : s[j] \notin Whitespace})
    IN  SubSeq(s, first, Len(s))

FallbackAgrees(s, primary) ==
    /\ StartsWithSeverity(s) =>
          ((match = [pattern |-> "fallback", filename |-> name_doxygen,
                     error |-> [line |-> 0, message |-> MessageAfterSeverity(s)]])
           <=> ~primary)
    /\ primary => match.pattern = "primary"
    /\ (~StartsWithSeverity(s) /\ ~primary) => match.pattern = "none"

C5_FallbackOnlyWithoutPrimary ==
    InLoop => FallbackAgrees(Stripped(i), PrimaryOf(i).matched)

C5_Witness ==
    /\ InLoop
    /\ StartsWithSeverity(Stripped(i))
    /\ ~PrimaryOf(i).matched
    /\ match.pattern = "fallback"
    /\ name_doxygen \in DOMAIN errors

(* C6: every (key, record) pair of the collection has exactly one testcase *)
(* element with name = file = key and line = the record's line number as   *)
(* text, holding exactly one error element whose message is                *)
(* "<line>: <message>"; there is no other testcase element, so the         *)
(* collection is recovered from the elements.                              *)
IsDecimal(t) ==
    /\ Len(t) >= 1
    /\ \A j \in DOMAIN t : t[j] \in {DigitChar(d) : d \in 0..9}
    /\ (Len(t) > 1 => t[1] # "0")

(* The record a testcase element stands for, read back from its attributes. *)
RecordOfChild(c) ==
    [line |-> int(ChildLine(c)),
     message |-> SubSeq(ChildMessage(c), Len(ChildLine(c)) + 3, Len(ChildMessage(c)))]

Recovered ==
    [k \in {ChildKey(tree.children[j]) : j \in DOMAIN tree.children} |->
        {RecordOfChild(tree.children[j]) :
            j \in {x \in DOMAIN tree.children : ChildKey(tree.children[x]) = k}}]

C6_OneTestCasePerRecord ==
    (Generated /\ DOMAIN errors # {}) =>
        /\ \A j \in DOMAIN tree.children :
               LET c == tree.children[j]
               IN  /\ c.tag = "testcase"
                   /\ DOMAIN c.attrib = {"name", "file", "line"}
                   /\ c.attrib.file = c.attrib.name
                   /\ IsDecimal(c.attrib.line)
                   /\ Len(c.children) = 1
                   /\ c.children[1].tag = "error"
                   /\ DOMAIN c.children[1].attrib = {"message"}
                   /\ HasPrefixAt(ChildMessage(c), 1, c.attrib.line \o <<":", " ">>)
                   /\ ChildKey(c) \in DOMAIN errors
                   /\ RecordOfChild(c) \in BagToSet(errors[ChildKey(c)])
        /\ \A k \in DOMAIN errors : \A e \in BagToSet(errors[k]) :
               Cardinality(ChildrenOf(k, e.line, e.message)) = 1
        /\ Recovered = AsSets(errors)

C6_Witness ==
    /\ Generated
    /\ Cardinality(DOMAIN errors) = 2
    /\ Len(tree.children) = 3
    /\ \E j \in DOMAIN tree.children : ChildLine(tree.children[j]) = <<"4", "2">>

(* C7: no failure while reading the input, parsing, building the suite or  *)
(* writing the output leaves main as an exception: main returns success,   *)
(* or failure after printing the description to the error stream.          *)
C7_NoExceptionLeavesMain ==
    /\ uncaught # NoException =>
           uncaught.during \notin {"read", "parse", "generate", "write"}
    /\ pc = "returned" => result \in {"success", "failure"}
    /\ result = "failure" => stderr # None

(* C8: every record made from a primary match has a line number >= 1, and  *)
(* a record with line 0 is only found under the key "doxygen".             *)
C8_PrimaryLinePositive ==
    /\ (InLoop /\ match.pattern = "primary") => match.error.line >= 1
    /\ \A k \in DOMAIN errors : \A e \in BagToSet(errors[k]) :
           e.line = 0 => k = name_doxygen

(* C8 as amended: a record with line 0 comes from a line only the fallback *)
(* pattern matches, under "doxygen", or from a primary match whose digits  *)
(* are all zeros, under the captured file name; a record with a line       *)
(* number >= 1 comes from a primary match with a digit other than zero.    *)
AllZeros(ds) == \A j \in DOMAIN ds : DigitValue(ds[j]) = 0

(* The record e under key k can come from a line with primary match P and *)
(* fallback match F.                                                       *)
IsOrigin(k, e, P, F) ==
    \/ /\ e.line = 0
       /\ ~P.matched
       /\ F.matched
       /\ k = name_doxygen
       /\ e.message = F.group2
    \/ /\ P.matched
       /\ k = P.group1
       /\ e.message = P.group4
       /\ (e.line = 0 <=> AllZeros(P.group2))

OriginsIn(P, F) ==
    \A k \in DOMAIN errors : \A e \in BagToSet(errors[k]) :
        \E p \in 1..i : IsOrigin(k, e, P[p], F[p])

C8_LineZeroOrigins ==
    InLoop => OriginsIn([p \in 1..i |-> PrimaryOf(p)], [p \in 1..i |-> FallbackOf(p)])

C8_Witness ==
    /\ InLoop
    /\ \E k \in DOMAIN errors :
          /\ k # name_doxygen
          /\ \E e \in BagToSet(errors[k]) : e.line = 0
    /\ name_doxygen \in DOMAIN errors

(* C9: the severity keyword is not kept: the two lines that differ only in *)
(* "error" versus "warning" give one record and one testcase element; a    *)
(* line whose keyword is "Error" or "note" gives no record.                *)
Diagnostic(f, n, kw, m) == f \o <<":">> \o n \o <<":", " ">> \o kw \o <<":", " ">> \o m
ToolMessage(kw, m) == kw \o <<":", " ">> \o m

PlainFiles == {<<"a">>, <<"b">>}
PlainNumbers == {<<"4", "2">>, <<"7">>, <<"0">>}
PlainMessages == {<<"x">>, <<"y">>}

C9_SeverityNotRetained ==
    (InLoop \/ Generated) =>
        /\ \A f \in PlainFiles, n \in PlainNumbers, m \in PlainMessages :
               ((\E p \in 1..i : lines[p] = Diagnostic(f, n, kw_error, m))
                  /\ (\E q \in 1..i : lines[q] = Diagnostic(f, n, kw_warning, m))) =>
                   /\ f \in DOMAIN errors
                   /\ CopiesIn([line |-> int(n), message |-> m], errors[f]) = 1
                   /\ Generated => Cardinality(ChildrenOf(f, int(n), m)) = 1
        /\ \A kw \in {kw_Error, kw_note} :
               (\/ \E f \in PlainFiles, n \in PlainNumbers, m \in PlainMessages :
                       lines[i] = Diagnostic(f, n, kw, m)
                \/ \E m \in PlainMessages :
                       lines[i] \in {ToolMessage(kw, m),
                                     ToolMessage(kw, ToolMessage(kw_warning, m))})
               => (match.pattern = "none" /\ (i = 1 => errors = EmptyDict))

C9_Witness ==
    /\ Generated
    /\ Len(lines) = 3
    /\ lines[1] = Diagnostic(<<"a">>, <<"4", "2">>, kw_error, <<"x">>)
    /\ lines[2] = Diagnostic(<<"a">>, <<"4", "2">>, kw_Error, <<"x">>)
    /\ lines[3] = Diagnostic(<<"a">>, <<"4", "2">>, kw_warning, <<"x">>)
    /\ Len(tree.children) = 1

(* C10: the collection is a function of the set of distinct stripped       *)
(* lines, so permuting or repeating lines or adding trailing whitespace    *)
(* does not change it, and the collection of the concatenation of two      *)
(* texts is the key-wise union of the collections of the two texts.        *)
DistinctLines == {rstrip(lines[p]) : p \in 1..Len(lines)}

CollectionOf(S) ==
    LET C == [l \in S |-> ClassifyLine(l)]
        M == {l \in S : C[l].pattern # "none"}
    IN  [k \in {C[l].filename : l \in M} |->
            {C[l].error : l \in {x \in M : C[x].filename = k}}]

KeyUnion(d1, d2) ==
    [k \in DOMAIN d1 \cup DOMAIN d2 |->
        (IF k \in DOMAIN d1 THEN BagToSet(d1[k]) ELSE {})
        \cup (IF k \in DOMAIN d2 THEN BagToSet(d2[k]) ELSE {})]

UnionAtCuts(cuts) ==
    \A k \in cuts :
        AsSets(errors) =
            KeyUnion(parse_doxygen(SubSeq(error_text, 1, k)).errors,
                     parse_doxygen(SubSeq(error_text, k + 1, Len(error_text))).errors)

DependsOnLineSetOnly ==
    /\ AsSets(errors) = CollectionOf(DistinctLines)
    /\ \A k \in DOMAIN errors : \A e \in BagToSet(errors[k]) : CopiesIn(e, errors[k]) = 1
    /\ DOMAIN errors = {key_order[j] : j \in DOMAIN key_order}

C10_UnionOfAnyTwoTexts ==
    Parsed => (DependsOnLineSetOnly /\ UnionAtCuts(0..Len(error_text)))

(* C10 as amended: the union holds for two texts of which the first ends   *)
(* with a line break, so that the concatenation joins no two lines into    *)
(* one.                                                                    *)
LineCuts == {k \in 1..Len(error_text) : error_text[k] = NL}

C10_UnionAtLineBreaks ==
    Parsed => (DependsOnLineSetOnly /\ UnionAtCuts(LineCuts))

C10_Witness ==
    /\ Parsed
    /\ Len(lines) = 3
    /\ lines[1] = lines[3]
    /\ lines[2] # rstrip(lines[2])
    /\ Cardinality(DOMAIN errors) = 1
    /\ Cardinality(LineCuts) = 2

============================================================================
